---------------------------- MODULE Spec2Model ----------------------------
(***************************************************************************)
(* HTTP-Aware Forms (http-aware.js): the request-construction pipeline     *)
(* (RequestHeader.interpolate / computeValue, HTTPAwareForm.collectHeaders,*)
(* collectFormData, encodeBody, buildRequest) and the submission protocol  *)
(* (submit, requestSubmit, navigateWithResponse, handleError).             *)
(*                                                                         *)
(* Text that the code scans character by character (templates, field       *)
(* names, field values, header values) is a sequence of one-character      *)
(* strings.  Text that the code only compares, looks up or changes the     *)
(* case of (header names, methods, enctypes, targets, ids) is a string.    *)
(***************************************************************************)
EXTENDS Integers, Sequences, FiniteSets, TLC

(***************************************************************************)
(* Characters                                                              *)
(***************************************************************************)
LowerLetters ==
  {"a","b","c","d","e","f","g","h","i","j","k","l","m",
   "n","o","p","q","r","s","t","u","v","w","x","y","z"}

UpperLetters ==
  {"A","B","C","D","E","F","G","H","I","J","K","L","M",
   "N","O","P","Q","R","S","T","U","V","W","X","Y","Z"}

Digits == {"0","1","2","3","4","5","6","7","8","9"}

\* [a-zA-Z_] : the first character of a placeholder identifier
IsIdentStart(c) == c \in LowerLetters \cup UpperLetters \cup {"_"}

\* [a-zA-Z0-9_-] : the further characters of a placeholder identifier
IsIdentChar(c) == c \in LowerLetters \cup UpperLetters \cup Digits \cup {"_", "-"}

\* [a-zA-Z_-] : the key of a bare "key=" result
IsKeyChar(c) == c \in LowerLetters \cup UpperLetters \cup {"_", "-"}

\* \s
IsSpace(c) == c \in {" ", "\t", "\n", "\r"}

\* The markers '\x00O\x00' and '\x00C\x00' that protect {{ and }}.  Each is
\* one element of the sequence: it holds no brace and no identifier
\* character at its ends, so no pattern can match across part of it.
MarkO == "<NUL>O<NUL>"
MarkC == "<NUL>C<NUL>"

(***************************************************************************)
(* Sequence helpers                                                        *)
(***************************************************************************)
\* Array.prototype.join(sep) on an array of texts
RECURSIVE Join(_, _)
Join(ss, sep) ==
  IF ss = <<>> THEN <<>>
  ELSE IF Len(ss) = 1 THEN ss[1]
  ELSE ss[1] \o sep \o Join(Tail(ss), sep)

Range(ss) == {ss[i] : i \in 1..Len(ss)}

\* String.prototype.replace(/ab/g, t) for a two-character pattern: leftmost
\* matches, not overlapping
RECURSIVE ReplacePairs(_, _, _)
ReplacePairs(s, c, t) ==
  IF s = <<>> THEN <<>>
  ELSE IF Len(s) >= 2 /\ s[1] = c /\ s[2] = c
       THEN <<t>> \o ReplacePairs(SubSeq(s, 3, Len(s)), c, t)
       ELSE <<s[1]>> \o ReplacePairs(Tail(s), c, t)

\* String.prototype.replace(/m/g, c) for a one-element pattern
ReplaceEach(s, m, c) == [i \in 1..Len(s) |-> IF s[i] = m THEN c ELSE s[i]]


(***************************************************************************)
(* RequestHeader.interpolate, HTTPAwareForm.formatValue                    *)
(***************************************************************************)
\* A FormData value: text, or a File (s is then its file name)
Text(s) == [s |-> s, file |-> FALSE]
File(s) == [s |-> s, file |-> TRUE]

\* String(value)
String(v) == IF v.file THEN <<"[object File]">> ELSE v.s

\* The first index >= j of s that holds no identifier character
RECURSIVE IdentStop(_, _)
IdentStop(s, j) ==
  IF j > Len(s) \/ ~IsIdentChar(s[j]) THEN j ELSE IdentStop(s, j + 1)

\* The first index >= j of s that holds "}"
RECURSIVE BraceStop(_, _)
BraceStop(s, j) ==
  IF j > Len(s) \/ s[j] = "}" THEN j ELSE BraceStop(s, j + 1)

\* The first index >= j of s that holds no \w character
RECURSIVE WordStop(_, _)
WordStop(s, j) ==
  IF j > Len(s) \/ s[j] \notin LowerLetters \cup UpperLetters \cup Digits \cup {"_"}
  THEN j ELSE WordStop(s, j + 1)

NoMatch == [ok |-> FALSE, name |-> <<>>, hasFmt |-> FALSE, fmt |-> <<>>, last |-> 0]

\* A match of /\{([a-zA-Z_][a-zA-Z0-9_-]*)(?:,([^}]+))?\}/ starting at s[i]
PlaceholderAt(s, i) ==
  IF s[i] = "{" /\ i + 1 <= Len(s) /\ IsIdentStart(s[i + 1])
  THEN LET e == IdentStop(s, i + 2)
           b == BraceStop(s, e + 1)
       IN IF e <= Len(s) /\ s[e] = "}"
          THEN [ok |-> TRUE, name |-> SubSeq(s, i + 1, e - 1),
                hasFmt |-> FALSE, fmt |-> <<>>, last |-> e]
          ELSE IF e <= Len(s) /\ s[e] = "," /\ b <= Len(s) /\ b > e + 1
          THEN [ok |-> TRUE, name |-> SubSeq(s, i + 1, e - 1),
                hasFmt |-> TRUE, fmt |-> SubSeq(s, e + 1, b - 1), last |-> b]
          ELSE NoMatch
  ELSE NoMatch

\* String.prototype.toUpperCase / toLowerCase on one character, for the
\* letters that field values of the model hold
UpperOf(c) ==
  CASE c = "a" -> "A" [] c = "b" -> "B" [] c = "v" -> "V" [] c = "w" -> "W"
    [] c = "x" -> "X" [] c = "y" -> "Y" [] OTHER -> c

LowerOf(c) ==
  CASE c = "A" -> "a" [] c = "B" -> "b" [] c = "V" -> "v" [] c = "W" -> "w"
    [] c = "X" -> "x" [] c = "Y" -> "y" [] OTHER -> c

\* HTTPAwareForm.formatters: the case formatters of http-aware-formatters.js
\* (the registry is open; the numeric and date formatters are not modelled)
FmtUpper == <<"u","p","p","e","r">>
FmtLower == <<"l","o","w","e","r">>
formatters == {FmtUpper, FmtLower}

\* formatSpec.match(/^(\w+)(?:\(([^)]*)\))?$/)?.[1], <<>> when there is no match
FormatterName(fmt) ==
  LET w == WordStop(fmt, 1)
      n == Len(fmt)
  IN IF w = 1 THEN <<>>
     ELSE IF w = n + 1 THEN fmt
     ELSE IF fmt[w] = "(" /\ fmt[n] = ")" /\ n > w
             /\ \A j \in (w + 1)..(n - 1) : fmt[j] # ")"
     THEN SubSeq(fmt, 1, w - 1)
     ELSE <<>>

\* formatValue(value, formatSpec): the registered formatter's result, else
\* String(value)
formatValue(value, hasFmt, fmt) ==
  LET name == IF hasFmt THEN FormatterName(fmt) ELSE <<>>
      str == String(value)
  IN IF name \notin formatters THEN str
     ELSE IF name = FmtUpper THEN [i \in 1..Len(str) |-> UpperOf(str[i])]
     ELSE [i \in 1..Len(str) |-> LowerOf(str[i])]

\* Names every object created by Object.fromEntries answers `in` for, through
\* Object.prototype (those that are placeholder identifiers; two of them)
NameValueOf == <<"v","a","l","u","e","O","f">>
NameToString == <<"t","o","S","t","r","i","n","g">>
ObjectPrototypeNames == {NameValueOf, NameToString}

\* String(Object.prototype[name]): a function's source text
NativeFunctionText(name) == <<"function ">> \o name \o <<"() { [native code] }">>

\* `name in values`
NameIn(name, values) == name \in DOMAIN values \/ name \in ObjectPrototypeNames

\* the replacement callback of interpolate
Substitute(s, i, m, values) ==
  IF NameIn(m.name, values)
  THEN IF m.name \in DOMAIN values
       THEN formatValue(values[m.name], m.hasFmt, m.fmt)
       ELSE formatValue(Text(NativeFunctionText(m.name)), m.hasFmt, m.fmt)
  ELSE SubSeq(s, i, m.last)

\* result.replace(/\{...\}/g, callback) from index i on
RECURSIVE ReplacePlaceholders(_, _, _)
ReplacePlaceholders(s, i, values) ==
  IF i > Len(s) THEN <<>>
  ELSE LET m == PlaceholderAt(s, i)
       IN IF m.ok
          THEN Substitute(s, i, m, values) \o ReplacePlaceholders(s, m.last + 1, values)
          ELSE <<s[i]>> \o ReplacePlaceholders(s, i + 1, values)

interpolate(template, values) ==
  LET protected == ReplacePairs(ReplacePairs(template, "{", MarkO), "}", MarkC)
      result == ReplacePlaceholders(protected, 1, values)
  IN ReplaceEach(ReplaceEach(result, MarkO, "{"), MarkC, "}")

\* /^[a-zA-Z_-]+=\s*$/.test(result)
IsBareAssignment(result) ==
  \E e \in 2..Len(result) :
    /\ result[e] = "="
    /\ \A j \in 1..(e - 1) : IsKeyChar(result[j])
    /\ \A j \in (e + 1)..Len(result) : IsSpace(result[j])

(***************************************************************************)
(* The document: one form[is=http-aware]                                   *)
(***************************************************************************)
VARIABLES
  attrs,            \* the form's own attributes
  decls,            \* its fieldset[is=request-header] elements, document order
  elements,         \* its other listed controls (form.elements), tree order
  _submitter,       \* this._submitter: an index of elements, 0 for null
  preparedRequest,  \* this.preparedRequest
  collected,        \* the list the last direct call of collectHeaders() returned
  built,            \* what the last direct call of buildRequest() returned
  stack,            \* the requestSubmit calls that are inside dispatchEvent,
                    \* outermost first, each the index of its attempt
  attempts          \* every call of submit / requestSubmit so far, oldest
                    \* first, with its locals and what it has done

dom == <<attrs, decls, elements>>
vars == <<attrs, decls, elements, _submitter, preparedRequest, collected,
          built, stack, attempts>>

Null == [kind |-> "null"]

\* getAttribute(name) of an attribute that is not there
NoAttr == "<null>"

\* el.getAttribute('header') || ''
header(d) == decls[d].header

\* el.getAttribute('value') || ''
template(d) == decls[d].value

\* RequestHeader.inputs: the indices of the controls linked by for= or contained
inputs(d) ==
  {i \in 1..Len(elements) : elements[i].for = decls[d].id \/ elements[i].parent = d}

\* new FormData(form, submitter): the entry list of the form.  A control with
\* no name has no entry, and a submit button has one only as the submitter.
RECURSIVE FormDataFrom(_, _)
FormDataFrom(i, submitter) ==
  IF i > Len(elements) THEN <<>>
  ELSE LET e == elements[i]
           entry == [k |-> e.name,
                     v |-> IF e.kind = "file" THEN File(e.value) ELSE Text(e.value)]
       IN (IF e.name # <<>> /\ (e.kind # "submit" \/ i = submitter)
           THEN <<entry>> ELSE <<>>) \o FormDataFrom(i + 1, submitter)

FormData(submitter) == FormDataFrom(1, submitter)

\* RequestHeader.values: Object.fromEntries of the entries whose name is the
\* name of one of the inputs; a later entry of a name replaces an earlier one
values(d, submitter) ==
  LET names == {elements[i].name : i \in inputs(d)}
      own == SelectSeq(FormData(submitter), LAMBDA en : en.k \in names)
      last(n) == CHOOSE j \in 1..Len(own) :
                   own[j].k = n /\ \A l \in (j + 1)..Len(own) : own[l].k # n
  IN [n \in {own[j].k : j \in 1..Len(own)} |-> own[last(n)].v]

computeValue(d, submitter) ==
  LET result == interpolate(template(d), values(d, submitter))
  IN IF result # <<>> /\ ~IsBareAssignment(result) THEN result ELSE <<>>

(***************************************************************************)
(* HTTPAwareForm: collectHeaders, collectFormData, encodeBody, buildRequest *)
(***************************************************************************)
COMBINABLE_HEADERS ==
  {"accept", "accept-charset", "accept-encoding", "accept-language",
   "cache-control", "connection", "content-encoding", "expect",
   "if-match", "if-none-match", "prefer", "te", "trailer",
   "transfer-encoding", "upgrade", "via", "warning", "link"}

\* String.prototype.toLowerCase, on the header names of the model
toLowerCase(s) ==
  CASE s = "Prefer" -> "prefer"
    [] s = "PREFER" -> "prefer"
    [] s = "Range" -> "range"
    [] s = "Accept" -> "accept"
    [] OTHER -> s

\* String.prototype.toUpperCase, on the methods of the model
toUpperCase(s) ==
  CASE s = "get" -> "GET"
    [] s = "post" -> "POST"
    [] s = "put" -> "PUT"
    [] s = "delete" -> "DELETE"
    [] s = "head" -> "HEAD"
    [] s = "patch" -> "PATCH"
    [] s = "Post" -> "POST"
    [] OTHER -> s

\* Map.prototype.has / get / set on a Map kept as the sequence of its entries
\* in insertion order
MapHas(m, key) == \E j \in 1..Len(m) : m[j].n = key

MapGet(m, key) == m[CHOOSE j \in 1..Len(m) : m[j].n = key].v

\* (mutant) a set of a present key moves the entry to the end
MapSet_Reinsert(m, key, val) ==
  Append(SelectSeq(m, LAMBDA en : en.n # key), [n |-> key, v |-> val])

MapSet(m, key, val) ==
  IF MapHas(m, key)
  THEN [j \in 1..Len(m) |-> IF m[j].n = key THEN [n |-> key, v |-> val] ELSE m[j]]
  ELSE Append(m, [n |-> key, v |-> val])

\* (mutant) every header treated as combinable
SegmentsBefore_Always(m, name) == IF MapHas(m, name) THEN MapGet(m, name) ELSE <<>>

\* The segments a declaration starts from: those of the header so far when it
\* is combinable, none otherwise
SegmentsBefore(m, name) ==
  IF name \in COMBINABLE_HEADERS /\ MapHas(m, name) THEN MapGet(m, name) ELSE <<>>

\* The body of the forEach of collectHeaders, for declaration d
HeaderStep(m, d, submitter) ==
  LET name == toLowerCase(header(d))
  IN IF name = "" THEN m
     ELSE MapSet(m, name, Append(SegmentsBefore(m, name), computeValue(d, submitter)))

\* headerMap after the declarations 1..d
RECURSIVE HeaderMapAfter(_, _)
HeaderMapAfter(d, submitter) ==
  IF d = 0 THEN <<>>
  ELSE HeaderStep(HeaderMapAfter(d - 1, submitter), d, submitter)

\* (mutant) the join without the filter
JoinSegments_Unfiltered(v) == Join(v, <<",", " ">>)

\* v.filter(x => x || x === 0).join(', ') : computeValue returns text only
JoinSegments(v) == Join(SelectSeq(v, LAMBDA x : x # <<>>), <<",", " ">>)

collectHeaders(submitter) ==
  LET headerMap == HeaderMapAfter(Len(decls), submitter)
  IN [j \in 1..Len(headerMap) |->
        [n |-> headerMap[j].n, v |-> JoinSegments(headerMap[j].v)]]

\* (mutant) only the contained controls, not the for= links
getHeaderBoundFields_Contained ==
  {elements[i].name : i \in {j \in 1..Len(elements) :
      elements[j].parent \in 1..Len(decls) /\ elements[j].name # <<>>}}

\* getHeaderBoundFields: the names (not empty) of every declaration's inputs
getHeaderBoundFields ==
  {elements[i].name : i \in {j \in UNION {inputs(d) : d \in 1..Len(decls)} :
                                elements[j].name # <<>>}}

\* collectFormData: formData.delete(name) deletes every entry of the name
collectFormData(submitter) ==
  SelectSeq(FormData(submitter), LAMBDA en : en.k \notin getHeaderBoundFields)

\* encodeBody
encodeBody(formData, enctype) ==
  IF enctype = "text/plain"
  THEN [kind |-> "text",
        text |-> Join([j \in 1..Len(formData) |->
                         formData[j].k \o <<"=">> \o String(formData[j].v)],
                      <<"\r", "\n">>),
        entries |-> <<>>]
  ELSE IF enctype = "application/x-www-form-urlencoded"
  THEN [kind |-> "urlencoded", text |-> <<>>,
        entries |-> SelectSeq(formData, LAMBDA en : ~en.v.file)]
  ELSE [kind |-> "multipart", text |-> <<>>, entries |-> formData]

\* location.href
location == [path |-> "/page", search |-> <<>>]

\* The submitter element, and whether there is one
HasSubmitter(submitter) == submitter # 0
Sub(submitter) == elements[submitter]

\* this.action: the document's URL when the attribute is missing or empty
FormAction == IF attrs.action = Null THEN location ELSE attrs.action

\* The first operands of the || chains of buildRequest
EffectiveMethod(submitter) ==
  toUpperCase(
    IF HasSubmitter(submitter) /\ Sub(submitter).formMethod # ""
    THEN Sub(submitter).formMethod
    ELSE IF attrs.method # "" THEN attrs.method ELSE "GET")

EffectiveAction(submitter) ==
  IF HasSubmitter(submitter) /\ Sub(submitter).formAction # Null
  THEN Sub(submitter).formAction
  ELSE FormAction

EffectiveEnctype(submitter) ==
  IF HasSubmitter(submitter) /\ Sub(submitter).formEnctype # ""
  THEN Sub(submitter).formEnctype
  ELSE IF attrs.enctype # "" THEN attrs.enctype
  ELSE "application/x-www-form-urlencoded"

\* (mutant) the routed pairs appended to the query string of the action
\* (url.searchParams.append) instead of replacing it
buildRequest_MergedQuery(submitter) ==
  LET method == EffectiveMethod(submitter)
      formData == collectFormData(submitter)
      url == EffectiveAction(submitter)
      toQuery == method \in {"GET", "HEAD", "DELETE"}
  IN [kind |-> "request",
      method |-> method,
      url |-> IF toQuery
              THEN [url EXCEPT !.search =
                      @ \o [j \in 1..Len(formData) |->
                              [k |-> formData[j].k, v |-> formData[j].v.s]]]
              ELSE url,
      headers |-> collectHeaders(submitter),
      body |-> IF toQuery THEN Null
               ELSE encodeBody(formData, EffectiveEnctype(submitter))]

\* buildRequest, reading this._submitter = submitter.  url.search is kept as
\* the list of its name/value pairs.
buildRequest(submitter) ==
  LET method == EffectiveMethod(submitter)
      headers == collectHeaders(submitter)
      formData == collectFormData(submitter)
      url == EffectiveAction(submitter)
      toQuery == method \in {"GET", "HEAD", "DELETE"}
  IN [kind |-> "request",
      method |-> method,
      url |-> IF toQuery
              THEN [url EXCEPT !.search =
                      [j \in 1..Len(formData) |->
                         [k |-> formData[j].k, v |-> formData[j].v.s]]]
              ELSE url,
      headers |-> headers,
      body |-> IF toQuery THEN Null
               ELSE encodeBody(formData, EffectiveEnctype(submitter))]

(***************************************************************************)
(* HTTPAwareForm: submit, requestSubmit, navigateWithResponse, handleError *)
(***************************************************************************)
\* The calls of submit / requestSubmit a behaviour holds
MaxAttempts == 2

\* The submit buttons of the form
Submitters == {i \in 1..Len(elements) : elements[i].kind = "submit"}

\* this.checkValidity(): no required control is empty
checkValidity ==
  \A i \in 1..Len(elements) : elements[i].required => elements[i].value # <<>>

\* (mutant) the negation lost
shouldValidate_Inverted(submitter) ==
  attrs.noValidate \/ (HasSubmitter(submitter) /\ Sub(submitter).formNoValidate)

\* !(this.noValidate || submitter?.formNoValidate)
shouldValidate(submitter) ==
  ~(attrs.noValidate \/ (HasSubmitter(submitter) /\ Sub(submitter).formNoValidate))

\* submitter?.formTarget || this.target || '_self'
ResolveTarget(submitter) ==
  IF HasSubmitter(submitter) /\ Sub(submitter).formTarget # ""
  THEN Sub(submitter).formTarget
  ELSE IF attrs.target # "" THEN attrs.target ELSE "_self"

\* A call that has just begun.  request, target, method are the locals
\* (request is what buildRequest returned to the call); the rest is what
\* the call and its promise chain have done.
NewAttempt(kind, trigger) ==
  [kind |-> kind, trigger |-> trigger, state |-> "begun",
   request |-> Null, target |-> "", method |-> "",
   reported |-> FALSE,          \* reportValidity() calls
   dispatched |-> FALSE,        \* a submit event was dispatched
   defaultPrevented |-> FALSE,  \* a listener called preventDefault()
   fetched |-> <<>>,            \* the argument of every fetch() call
   response |-> 0,              \* the status of the response received
   rejected |-> FALSE,          \* fetch() rejected: a transport failure
   navigation |-> "none",       \* what navigateWithResponse did
   navArgs |-> Null,            \* the (method, target) it was called with
   httpErrors |-> <<>>]         \* detail.error of every http-error event

Top == stack[Len(stack)]

\* requestSubmit(submitter) up to the dispatchEvent call (lines 135-144).
\* The caller is the page (no call is open) or a submit listener.
requestSubmit(submitter) ==
  /\ Len(attempts) < MaxAttempts
  /\ _submitter' = submitter
  /\ LET a == NewAttempt("requestSubmit", submitter)
     IN IF shouldValidate(submitter) /\ ~checkValidity
        THEN /\ attempts' = Append(attempts,
                  [a EXCEPT !.state = "invalid", !.reported = TRUE])
             /\ UNCHANGED <<preparedRequest, stack>>
        ELSE /\ preparedRequest' = buildRequest(submitter)
             /\ attempts' = Append(attempts,
                  [a EXCEPT !.state = "dispatching",
                            !.request = buildRequest(submitter),
                            !.target = ResolveTarget(submitter),
                            !.dispatched = TRUE])
             /\ stack' = Append(stack, Len(attempts) + 1)
  /\ UNCHANGED <<dom, collected, built>>

\* One submit listener of the event being delivered runs.  What it reads from
\* event.target.preparedRequest is the value of preparedRequest in the state
\* it runs in; it may call event.preventDefault().
SubmitListener(prevent) ==
  /\ stack # <<>>
  /\ attempts' = [attempts EXCEPT ![Top].defaultPrevented = @ \/ prevent]
  /\ UNCHANGED <<dom, _submitter, preparedRequest, collected, built, stack>>

\* (mutant) the return value of dispatchEvent not looked at
dispatchEvent_Ignored(a) == TRUE

\* What this.dispatchEvent(event) returns for the event of attempt a: false
\* when a listener has cancelled it
dispatchEvent(a) == ~attempts[a].defaultPrevented

\* requestSubmit from the return of dispatchEvent on (lines 144-150).
\* Reading .method of null throws a TypeError, which ends the call there.
requestSubmitResume ==
  /\ stack # <<>>
  /\ stack' = SubSeq(stack, 1, Len(stack) - 1)
  /\ IF ~dispatchEvent(Top)
     THEN /\ attempts' = [attempts EXCEPT ![Top].state = "cancelled"]
          /\ preparedRequest' = Null
     ELSE IF preparedRequest = Null
     THEN /\ attempts' = [attempts EXCEPT ![Top].state = "threw"]
          /\ UNCHANGED preparedRequest
     ELSE /\ attempts' = [attempts EXCEPT
                 ![Top].state = "sending",
                 ![Top].method = preparedRequest.method,
                 ![Top].fetched = Append(@, preparedRequest)]
          /\ preparedRequest' = Null
  /\ UNCHANGED <<dom, _submitter, collected, built>>

\* submit() (lines 126-132): the caller is the page or a submit listener
submit ==
  /\ Len(attempts) < MaxAttempts
  /\ attempts' = Append(attempts,
       [NewAttempt("submit", 0) EXCEPT
          !.state = "sending",
          !.request = buildRequest(_submitter),
          !.target = IF attrs.target # "" THEN attrs.target ELSE "_self",
          !.method = buildRequest(_submitter).method,
          !.fetched = <<buildRequest(_submitter)>>])
  /\ UNCHANGED <<dom, _submitter, preparedRequest, collected, built, stack>>

\* The statuses a response of the model has
Statuses == {200, 500}

\* navigateWithResponse(response, method, target): the navigation it asks the
\* host for, and whether it throws.  html: the content type of the response
\* includes text/html.  blocked: the host opens no window for window.open,
\* which then returns null, and reading .document of null throws a TypeError
\* before anything is written.  The body of the response is taken to be
\* readable.
navigateWithResponse(redirected, html, target, blocked) ==
  IF ~redirected /\ html
  THEN IF target = "_blank" /\ blocked
       THEN [did |-> "none", threw |-> "TypeError"]
       ELSE [did |-> IF target = "_blank" THEN "writeBlank" ELSE "write",
             threw |-> ""]
  ELSE IF target = "_blank"
  THEN [did |-> "open", threw |-> ""]
  ELSE [did |-> "href", threw |-> ""]

\* (mutant) the callback reads the target of the latest call, not its own
FetchResolves_LatestTarget(a, status, redirected, html, blocked) ==
  /\ stack = <<>>
  /\ attempts[a].state = "sending"
  /\ LET target == attempts[Len(attempts)].target
         nav == navigateWithResponse(redirected, html, target, blocked)
     IN attempts' = [attempts EXCEPT
          ![a].response = status,
          ![a].navArgs = [method |-> attempts[a].method, target |-> target],
          ![a].navigation = nav.did,
          ![a].state = IF nav.threw = "" THEN "navigated" ELSE "failed",
          ![a].httpErrors = IF nav.threw = "" THEN @ ELSE Append(@, nav.threw)]
  /\ UNCHANGED <<dom, _submitter, preparedRequest, collected, built, stack>>

\* The promise chain fetch(..).then(navigateWithResponse).catch(handleError)
\* of attempt a, for a response received
FetchResolves(a, status, redirected, html, blocked) ==
  /\ stack = <<>>
  /\ attempts[a].state = "sending"
  /\ LET nav == navigateWithResponse(redirected, html, attempts[a].target, blocked)
     IN attempts' = [attempts EXCEPT
          ![a].response = status,
          ![a].navArgs = [method |-> attempts[a].method,
                          target |-> attempts[a].target],
          ![a].navigation = nav.did,
          ![a].state = IF nav.threw = "" THEN "navigated" ELSE "failed",
          ![a].httpErrors = IF nav.threw = "" THEN @ ELSE Append(@, nav.threw)]
  /\ UNCHANGED <<dom, _submitter, preparedRequest, collected, built, stack>>

\* The same chain for a transport failure: handleError(err)
FetchRejects(a) ==
  /\ stack = <<>>
  /\ attempts[a].state = "sending"
  /\ attempts' = [attempts EXCEPT
       ![a].rejected = TRUE,
       ![a].state = "failed",
       ![a].httpErrors = Append(@, "NetworkError")]
  /\ UNCHANGED <<dom, _submitter, preparedRequest, collected, built, stack>>

\* Direct calls of the two public builders by a script of the page
collectHeadersCall ==
  /\ collected' = [kind |-> "headers", list |-> collectHeaders(_submitter)]
  /\ UNCHANGED <<dom, _submitter, preparedRequest, built, stack, attempts>>

buildRequestCall ==
  /\ built' = buildRequest(_submitter)
  /\ UNCHANGED <<dom, _submitter, preparedRequest, collected, stack, attempts>>

\* The submit listener the form registers on itself (connectedCallback): a
\* native submit event, fired by the host for an activated submit button
\* once its own validation has passed, is stopped and handed to
\* requestSubmit.  The events requestSubmit dispatches (_httpAware) pass.
_handleNativeSubmit(submitter) ==
  /\ stack = <<>>
  /\ shouldValidate(submitter) => checkValidity
  /\ requestSubmit(submitter)

(***************************************************************************)
(* Documents                                                               *)
(***************************************************************************)
Control(kind, name, value) ==
  [kind |-> kind, name |-> name, value |-> value, parent |-> 0, for |-> NoAttr,
   required |-> FALSE, formMethod |-> "", formAction |-> Null,
   formEnctype |-> "", formNoValidate |-> FALSE, formTarget |-> ""]

Url(path) == [path |-> path, search |-> <<>>]

\* <form is="http-aware" action="/items?src=a" method="get">
\*   <input name="q" required>            (empty, or holding "1")
\*   <fieldset is="request-header" header="Prefer" value="v={x}">
\*     <input name="x" value="1"></fieldset>
\*   <button name="go" value="1">
\*   <button name="del" value="2" formmethod="post" formaction="/items/42"
\*           formenctype="text/plain" formtarget="_blank" formnovalidate>
\* </form>
PageDecls == << [id |-> "", header |-> "Prefer", value |-> <<"v","=","{","x","}">>] >>

PageElements(q) ==
  << [Control("text", <<"q">>, q) EXCEPT !.required = TRUE],
     [Control("text", <<"x">>, <<"1">>) EXCEPT !.parent = 1],
     Control("submit", <<"g","o">>, <<"1">>),
     [Control("submit", <<"d","e","l">>, <<"2">>) EXCEPT
        !.formMethod = "post", !.formAction = Url("/items/42"),
        !.formEnctype = "text/plain", !.formNoValidate = TRUE,
        !.formTarget = "_blank"] >>

PageAttrs(noValidate) ==
  [method |-> "get",
   action |-> [path |-> "/items", search |-> <<[k |-> <<"s","r","c">>, v |-> <<"a">>]>>],
   enctype |-> "application/x-www-form-urlencoded", target |-> "",
   noValidate |-> noValidate]

\* The form after construction: no submitter, no prepared request
Fresh ==
  /\ _submitter = 0
  /\ preparedRequest = Null
  /\ collected = Null
  /\ built = Null
  /\ stack = <<>>
  /\ attempts = <<>>

Init ==
  /\ \E nv \in BOOLEAN : attrs = PageAttrs(nv)
  /\ decls = PageDecls
  /\ \E q \in {<<>>, <<"1">>} : elements = PageElements(q)
  /\ Fresh

Next ==
  \/ \E s \in {0} \cup Submitters : requestSubmit(s)
  \/ \E s \in Submitters : _handleNativeSubmit(s)
  \/ \E prevent \in BOOLEAN : SubmitListener(prevent)
  \/ requestSubmitResume
  \/ submit
  \/ \E a \in 1..Len(attempts), st \in Statuses, rd, html, bl \in BOOLEAN :
       FetchResolves(a, st, rd, html, bl)
  \/ \E a \in 1..Len(attempts) : FetchRejects(a)

Spec == Init /\ [][Next]_vars

(***************************************************************************)
(* The builders alone, on forms drawn from bounded sets                    *)
(***************************************************************************)
\* The request-header declarations a form of this part holds
MaxDecls == 3

\* The declarations: combinable names in several cases, a name that is not
\* combinable, no header name; templates that yield a value, nothing, or a
\* bare "key="
DeclPool ==
  { [id |-> "",  header |-> "Prefer", value |-> <<"v","=","{","x","}">>],
    [id |-> "h", header |-> "PREFER", value |-> <<"{","y","}">>],
    [id |-> "",  header |-> "prefer", value |-> <<"b">>],
    [id |-> "",  header |-> "Range",  value |-> <<"a">>],
    [id |-> "h", header |-> "range",  value |-> <<"{","y","}">>],
    [id |-> "",  header |-> "",       value |-> <<"{","x","}">>] }

DeclLists == UNION {[1..n -> DeclPool] : n \in 0..MaxDecls}

\* <form is="http-aware" method="delete" enctype="multipart/form-data">
\*   <input name="x" value="9">
\*   <input name="x">      (empty or "1"; inside the first declaration or not)
\*   <input name="y">      (empty or "2"; for="h" or not)
\*   <input type="file" name="f">   (a.txt chosen)
\*   <button name="go" value="1">
\*   <button name="p" value="t" formmethod="post" formenctype="text/plain">
\*   <button name="p" value="m" formmethod="post">
\*   <button name="p" value="u" formmethod="post"
\*           formenctype="application/x-www-form-urlencoded">
\* </form>
FormElements(x, xIn, y, yFor) ==
  << Control("text", <<"x">>, <<"9">>),
     [Control("text", <<"x">>, x) EXCEPT !.parent = xIn],
     [Control("text", <<"y">>, y) EXCEPT !.for = yFor],
     Control("file", <<"f">>, <<"a",".","t","x","t">>),
     Control("submit", <<"g","o">>, <<"1">>),
     [Control("submit", <<"p">>, <<"t">>) EXCEPT
        !.formMethod = "post", !.formEnctype = "text/plain"],
     [Control("submit", <<"p">>, <<"m">>) EXCEPT !.formMethod = "post"],
     [Control("submit", <<"p">>, <<"u">>) EXCEPT
        !.formMethod = "post",
        !.formEnctype = "application/x-www-form-urlencoded"] >>

FormAttrs ==
  [method |-> "delete",
   action |-> [path |-> "/items", search |-> <<[k |-> <<"y">>, v |-> <<"a">>]>>],
   enctype |-> "multipart/form-data", target |-> "", noValidate |-> FALSE]

InitBuild ==
  /\ attrs = FormAttrs
  /\ decls \in DeclLists
  /\ \E x \in {<<>>, <<"1">>}, y \in {<<>>, <<"2">>},
        xIn \in {0, 1}, yFor \in {NoAttr, "h"} :
       /\ xIn <= Len(decls)
       /\ elements = FormElements(x, xIn, y, yFor)
  /\ _submitter \in {0} \cup (Submitters \ {5})
  /\ preparedRequest = Null
  /\ collected = Null
  /\ built = Null
  /\ stack = <<>>
  /\ attempts = <<>>

NextBuild ==
  \/ collectHeadersCall
  \/ buildRequestCall

SpecBuild == InitBuild /\ [][NextBuild]_vars

(***************************************************************************)
(* The routing, on forms of every method and encoding                      *)
(***************************************************************************)
\* The method= values: missing, the query methods and the body methods
Methods == {"", "get", "head", "delete", "post", "put", "patch"}

\* The enctype= values; a missing one reads as the urlencoded default
Enctypes == {"", "multipart/form-data", "text/plain"}

\* The action= values: missing (the document's URL) or one that has a query
\* string of its own
Actions == {Null, [path |-> "/items", search |-> <<[k |-> <<"y">>, v |-> <<"a">>]>>]}

\* The form of FormElements with at most one declaration, and its method,
\* enctype and action attributes drawn from the sets above
InitRoute ==
  /\ \E m \in Methods, e \in Enctypes, a \in Actions :
       attrs = [FormAttrs EXCEPT !.method = m, !.enctype = e, !.action = a]
  /\ decls \in {ds \in DeclLists : Len(ds) <= 1}
  /\ \E x \in {<<>>, <<"1">>}, y \in {<<>>, <<"2">>},
        xIn \in {0, 1}, yFor \in {NoAttr, "h"} :
       /\ xIn <= Len(decls)
       /\ elements = FormElements(x, xIn, y, yFor)
  /\ _submitter \in {0} \cup Submitters
  /\ preparedRequest = Null
  /\ collected = Null
  /\ built = Null
  /\ stack = <<>>
  /\ attempts = <<>>

SpecRoute == InitRoute /\ [][NextBuild]_vars

(***************************************************************************)
(* computeValue, on one declaration and templates drawn from a set         *)
(***************************************************************************)
\* The value= templates: a placeholder of a name no control has, with and
\* without a format, alone and after "p="; of the bound control x; of names
\* that no control has and Object.prototype has; an escaped one; a bare "p="
Templates ==
  { <<"p","=","{","m","}">>,
    <<"p","=","{","m",",","u","p","p","e","r","}">>,
    <<"{","m","}">>,
    <<"p","=","{","x","}">>,
    <<"p","=","{","x","}","{","m","}">>,
    <<"p","=","{","t","o","S","t","r","i","n","g","}">>,
    <<"{","v","a","l","u","e","O","f","}">>,
    <<"p","=","{","{","m","}","}">>,
    <<"p","=">> }

\* <form is="http-aware">
\*   <fieldset is="request-header" header="Range" value=(a template)>
\*     <input name="x">   (empty, a space or "1")
\*   </fieldset>
\*   ... the other controls of FormElements
\* </form>
InitValue ==
  /\ attrs = FormAttrs
  /\ \E tpl \in Templates :
       decls = << [id |-> "", header |-> "Range", value |-> tpl] >>
  /\ \E x \in {<<>>, <<" ">>, <<"1">>}, y \in {<<>>, <<"2">>} :
       elements = FormElements(x, 1, y, NoAttr)
  /\ _submitter \in {0} \cup Submitters
  /\ preparedRequest = Null
  /\ collected = Null
  /\ built = Null
  /\ stack = <<>>
  /\ attempts = <<>>

SpecValue == InitValue /\ [][NextBuild]_vars

(***************************************************************************)
(* Properties of collectHeaders and of the routing                         *)
(***************************************************************************)
\* The declarations that take part under the lowercased header name n
DeclsNamed(n) ==
  SelectSeq([d \in 1..Len(decls) |-> d], LAMBDA d : toLowerCase(decls[d].header) = n)

\* The value collectHeaders returned for name n
CollectedValue(n) ==
  collected.list[CHOOSE j \in 1..Len(collected.list) : collected.list[j].n = n].v

CollectedNames == {collected.list[j].n : j \in 1..Len(collected.list)}

\* s holds t from index j on
HoldsAt(s, j, t) == j + Len(t) - 1 <= Len(s) /\ SubSeq(s, j, j + Len(t) - 1) = t

Comma == <<",", " ">>

\* C7: for a header name of the combinable set, the value collectHeaders
\* returns is the non-empty computed values of all declarations of that
\* lowercased name, in declaration order, joined with ", "; so it neither
\* begins nor ends with ", " and holds no ", , ".
C7_CombinableJoin ==
  collected # Null =>
    \A n \in CollectedNames \cap COMBINABLE_HEADERS :
      LET ds == DeclsNamed(n)
          segs == [j \in 1..Len(ds) |-> computeValue(ds[j], _submitter)]
          kept == SelectSeq(segs, LAMBDA x : x # <<>>)
          v == CollectedValue(n)
      IN /\ v = Join(kept, Comma)
         /\ (Len(kept) = 2 => v = kept[1] \o Comma \o kept[2])
         /\ ~HoldsAt(v, 1, Comma)
         /\ ~(Len(v) >= 2 /\ HoldsAt(v, Len(v) - 1, Comma))
         /\ \A j \in 1..Len(v) : ~HoldsAt(v, j, Comma \o Comma)

\* Three declarations of one combinable name, the middle one yielding the
\* empty string between two values
C7_Witness ==
  /\ collected # Null
  /\ Len(decls) = 3
  /\ \A d \in 1..3 : toLowerCase(decls[d].header) = "prefer"
  /\ computeValue(1, _submitter) = <<"v","=","1">>
  /\ computeValue(2, _submitter) = <<>>
  /\ computeValue(3, _submitter) = <<"b">>
  /\ CollectedValue("prefer") = <<"v","=","1",","," ","b">>

\* C8: for a header name outside the combinable set, the value collectHeaders
\* returns is the computed value of the last declaration of that lowercased
\* name alone, also when that value is the empty string.
C8_LastDeclarationWins ==
  collected # Null =>
    \A n \in CollectedNames \ COMBINABLE_HEADERS :
      LET ds == DeclsNamed(n)
      IN CollectedValue(n) = computeValue(ds[Len(ds)], _submitter)

\* "a" declared first, then a declaration of the same name that yields ""
C8_Witness ==
  /\ collected # Null
  /\ Len(DeclsNamed("range")) >= 2
  /\ computeValue(DeclsNamed("range")[1], _submitter) = <<"a">>
  /\ computeValue(DeclsNamed("range")[Len(DeclsNamed("range"))], _submitter) = <<>>
  /\ CollectedValue("range") = <<>>

\* The lowercased names of the declarations 1..d that have a header name, each
\* once, in the order of their first declaration
RECURSIVE FirstDeclared(_)
FirstDeclared(d) ==
  IF d = 0 THEN <<>>
  ELSE LET before == FirstDeclared(d - 1)
           n == toLowerCase(decls[d].header)
       IN IF decls[d].header = "" \/ n \in Range(before) THEN before
          ELSE Append(before, n)

\* C9: the list collectHeaders returns has exactly one entry for each distinct
\* lowercased header name of a declaration with a header name, also when all
\* its segments are empty, in the order in which the names were first declared.
C9_OneEntryPerNameInOrder ==
  collected # Null =>
    [j \in 1..Len(collected.list) |-> collected.list[j].n] = FirstDeclared(Len(decls))

\* Two names, the first declared again after the second, and one of the two
\* entries empty because every segment of it is
C9_Witness ==
  /\ collected # Null
  /\ Len(decls) = 3
  /\ toLowerCase(decls[1].header) = toLowerCase(decls[3].header)
  /\ decls[1].header # decls[3].header
  /\ toLowerCase(decls[2].header) # toLowerCase(decls[1].header)
  /\ Len(collected.list) = 2
  /\ collected.list[1].n = toLowerCase(decls[1].header)
  /\ \E j \in 1..2 : collected.list[j].v = <<>>

\* The names bound to a declaration: of a control inside it or linked to its
\* id by for=
BoundNames ==
  {elements[i].name : i \in {j \in 1..Len(elements) :
      /\ elements[j].name # <<>>
      /\ \E d \in 1..Len(decls) :
           elements[j].parent = d \/ elements[j].for = decls[d].id}}

RoutesToQuery(r) == r.method \in {"GET", "HEAD", "DELETE"}

\* A line of a text/plain body begins at index j
LineStartsAt(s, j) == j = 1 \/ (j > 2 /\ s[j - 2] = "\r" /\ s[j - 1] = "\n")

\* The names the body of request r holds
BodyHolds(r, n) ==
  /\ r.body # Null
  /\ \/ \E j \in 1..Len(r.body.entries) : r.body.entries[j].k = n
     \/ \E j \in 1..Len(r.body.text) :
          LineStartsAt(r.body.text, j) /\ HoldsAt(r.body.text, j, n \o <<"=">>)

FreeFields ==
  SelectSeq(FormData(_submitter), LAMBDA en : en.k \notin BoundNames)

\* A free field as a query pair: a file stands as its file name
AsQueryPair(en) == [k |-> en.k, v |-> en.v.s]

BodyMethods == {"POST", "PUT", "PATCH"}

\* The line name=value of a text/plain body
LineOf(en) == en.k \o <<"=">> \o (IF en.v.file THEN <<"[object File]">> ELSE en.v.s)

\* s holds the whole line t from index j on
WholeLineAt(s, j, t) ==
  /\ LineStartsAt(s, j)
  /\ HoldsAt(s, j, t)
  /\ \/ j + Len(t) - 1 = Len(s)
     \/ HoldsAt(s, j + Len(t), <<"\r", "\n">>)

\* The body of request r holds the field en, with its value
InBody(r, en) ==
  /\ r.body # Null
  /\ \/ \E j \in 1..Len(r.body.entries) : r.body.entries[j] = en
     \/ \E j \in 1..Len(r.body.text) : WholeLineAt(r.body.text, j, LineOf(en))

\* The query string of request r is the free fields and nothing else, and r
\* has no body
QueryIsFreeFields(r) ==
  /\ r.body = Null
  /\ r.url.search = [j \in 1..Len(FreeFields) |-> AsQueryPair(FreeFields[j])]

\* C11 (as stated): with GET, HEAD or DELETE the query string of the built
\* request is the free fields, replacing the query string of the action, and
\* there is no body; with POST, PUT or PATCH every free field is in the body
\* and the query string is that of the action.
C11_FreeFieldsToOneTarget ==
  built # Null =>
    /\ RoutesToQuery(built) => QueryIsFreeFields(built)
    /\ built.method \in BodyMethods =>
         /\ built.url.search = EffectiveAction(_submitter).search
         /\ \A j \in 1..Len(FreeFields) : InBody(built, FreeFields[j])

\* C11 (amended): as above, except that a body encoded as
\* application/x-www-form-urlencoded holds the free fields that are not
\* files, and no file field at all.
C11_FreeFieldsToOneTargetButFiles ==
  built # Null =>
    /\ RoutesToQuery(built) => QueryIsFreeFields(built)
    /\ built.method \in BodyMethods =>
         /\ built.url.search = EffectiveAction(_submitter).search
         /\ built.body # Null
         /\ \A j \in 1..Len(FreeFields) :
              IF built.body.kind = "urlencoded" /\ FreeFields[j].v.file
              THEN ~BodyHolds(built, FreeFields[j].k)
              ELSE InBody(built, FreeFields[j])

\* A form whose action has a query string of its own, submitted with DELETE:
\* the free fields (the file among them, two or more) make the query string
C11_Witness ==
  /\ built # Null
  /\ built.method = "DELETE"
  /\ EffectiveAction(_submitter).search # <<>>
  /\ Len(FreeFields) >= 2
  /\ \E j \in 1..Len(FreeFields) : FreeFields[j].v.file
  /\ BoundNames # {}

\* The placeholders of a template that has no escaped brace before them:
\* where one starts
PlaceholderStarts(tpl) ==
  {i \in 1..Len(tpl) : PlaceholderAt(tpl, i).ok /\ (i = 1 \/ tpl[i - 1] # "{")}

\* The names of the value map of declaration d: of the snapshot entries of
\* its bound controls
ValueMapNames(d) ==
  {en.k : en \in {e \in Range(FormData(_submitter)) :
     \E i \in 1..Len(elements) :
       /\ elements[i].name = e.k
       /\ elements[i].parent = d \/ elements[i].for = decls[d].id}}

\* s holds t somewhere
Contains(s, t) == \E j \in 1..Len(s) : HoldsAt(s, j, t)

\* C12: the value computed for a declaration holds, as written in the
\* template, every placeholder {identifier} or {identifier,formatSpec} whose
\* identifier the declaration's value map lacks (so the value is not
\* suppressed), and it is never a bare "key=" followed by whitespace only:
\* such a result is replaced by the empty string.
C12_MissingPlaceholderVerbatim ==
  (collected # Null /\ Len(decls) = 1 /\ Len(collected.list) = 1) =>
    LET tpl == decls[1].value
        out == collected.list[1].v
    IN /\ \A i \in PlaceholderStarts(tpl) :
            PlaceholderAt(tpl, i).name \notin ValueMapNames(1) =>
              Contains(out, SubSeq(tpl, i, PlaceholderAt(tpl, i).last))
       /\ ~IsBareAssignment(out)

\* The declarations that take part in the header list: with a header name
TakesPart(d) == decls[d].header # ""

\* The field en is among those routed to the query string or to the body of
\* request r; a file routed to a urlencoded body counts, though the encoding
\* then leaves it out
Routed(r, en) ==
  IF RoutesToQuery(r)
  THEN \E j \in 1..Len(r.url.search) : r.url.search[j] = AsQueryPair(en)
  ELSE \/ InBody(r, en)
       \/ r.body # Null /\ r.body.kind = "urlencoded" /\ en.v.file

\* C13: every entry of the field snapshot is in the value map of a header
\* declaration that takes part in the header list, or among the fields
\* routed to the query string or body of the built request; so a declaration
\* with no header name does not take its bound fields out of the routing.
C13_NoFieldLost ==
  built # Null =>
    \A j \in 1..Len(FormData(_submitter)) :
      LET en == FormData(_submitter)[j]
      IN \/ \E d \in 1..Len(decls) : TakesPart(d) /\ en.k \in ValueMapNames(d)
         \/ Routed(built, en)

(***************************************************************************)
(* Properties of the submission protocol                                   *)
(***************************************************************************)
Attempts == 1..Len(attempts)

\* The attempt a step has begun, 0 when it has begun none
Begun == IF Len(attempts') = Len(attempts) + 1 THEN Len(attempts') ELSE 0

\* C1: the request of every submission (requestSubmit with a submitter,
\* requestSubmit without one, submit) is built from the control that triggered
\* that very submission, or from the form's own attributes when it has none:
\* it is the request buildRequest yields for that trigger, whatever submitter
\* an earlier submission has recorded.
C1_OverridesForOneSubmissionOnly ==
  [][(Begun # 0 /\ attempts'[Begun].request # Null)
       => attempts'[Begun].request = buildRequest(attempts'[Begun].trigger)]_vars

\* C2: when validation is required (neither novalidate nor the submitter's
\* formnovalidate) and a required control is empty, the requestSubmit call
\* reports the invalid state and ends at once: no request built, no submit
\* event, no fetch, preparedRequest and the open calls as they were; and
\* nothing happens to that attempt afterwards.
C2_InvalidEndsAtOnce ==
  [][/\ ( /\ Begun # 0
          /\ attempts'[Begun].kind = "requestSubmit"
          /\ ~attrs.noValidate
          /\ ~(attempts'[Begun].trigger # 0
               /\ elements[attempts'[Begun].trigger].formNoValidate)
          /\ \E i \in 1..Len(elements) :
               elements[i].required /\ elements[i].value = <<>> )
        => /\ attempts'[Begun] =
                [NewAttempt("requestSubmit", attempts'[Begun].trigger)
                   EXCEPT !.state = "invalid", !.reported = TRUE]
           /\ preparedRequest' = preparedRequest
           /\ stack' = stack
     /\ \A a \in Attempts :
          attempts[a].state = "invalid" => attempts'[a] = attempts[a]]_vars

\* An invalid requestSubmit made by a listener while the descriptor of the
\* call being delivered is in preparedRequest, which stays there
C2_Witness ==
  \E a \in Attempts :
    /\ attempts[a].state = "invalid"
    /\ attempts[a].reported
    /\ stack # <<>>
    /\ preparedRequest # Null
    /\ preparedRequest = attempts[Top].request

\* C3: a requestSubmit attempt whose submit event a listener cancelled fetches
\* nothing, so it neither navigates nor raises http-error; an attempt fetches
\* only once its event has been delivered uncancelled, and at most once.
C3_CancelledNeverSends ==
  \A a \in Attempts :
    attempts[a].kind = "requestSubmit" =>
      /\ attempts[a].defaultPrevented =>
           /\ attempts[a].fetched = <<>>
           /\ attempts[a].response = 0
           /\ ~attempts[a].rejected
           /\ attempts[a].navigation = "none"
           /\ attempts[a].navArgs = Null
           /\ attempts[a].httpErrors = <<>>
      /\ attempts[a].fetched # <<>> =>
           /\ attempts[a].dispatched
           /\ ~attempts[a].defaultPrevented
           /\ a \notin Range(stack)
      /\ Len(attempts[a].fetched) <= 1

\* One attempt cancelled by a listener and ended, another one delivered
\* uncancelled and sent
C3_Witness ==
  \E a, b \in Attempts :
    /\ attempts[a].kind = "requestSubmit"
    /\ attempts[a].defaultPrevented
    /\ attempts[a].state = "cancelled"
    /\ attempts[b].kind = "requestSubmit"
    /\ Len(attempts[b].fetched) = 1
    /\ stack = <<>>

\* C4: an attempt that has fetched ends in one of two ways, decided by whether
\* a response was received: a response of any status leads to navigation and
\* to no http-error event; a transport failure leads to exactly one http-error
\* event, to no navigation and to no further fetch.
C4_OutcomeDecidedByResponse ==
  \A a \in Attempts :
    /\ attempts[a].response # 0 =>
         /\ attempts[a].navigation \in {"write", "writeBlank", "open", "href"}
         /\ attempts[a].httpErrors = <<>>
    /\ attempts[a].rejected =>
         /\ attempts[a].httpErrors = <<"NetworkError">>
         /\ attempts[a].navigation = "none"
         /\ attempts[a].response = 0
         /\ Len(attempts[a].fetched) = 1

\* C5: while the submit event of an attempt is being delivered, preparedRequest
\* is the descriptor built for that attempt; the request fetched is that
\* descriptor; and an attempt delivered uncancelled has fetched, also when a
\* listener has started another submission during the delivery.
C5_ListenersSeeOwnDescriptor ==
  /\ stack # <<>> => preparedRequest = attempts[Top].request
  /\ \A a \in Attempts :
       attempts[a].kind = "requestSubmit" =>
         /\ attempts[a].fetched # <<>> => attempts[a].fetched[1] = attempts[a].request
         /\ (attempts[a].dispatched /\ a \notin Range(stack)
               /\ ~attempts[a].defaultPrevented)
              => attempts[a].fetched # <<>>

\* The target a submission triggered by control s (0: none) is to use: the
\* formtarget of the control, else the target of the form, else _self
TargetOf(s) ==
  IF s # 0 /\ elements[s].formTarget # "" THEN elements[s].formTarget
  ELSE IF attrs.target # "" THEN attrs.target ELSE "_self"

\* C6: overlapping submissions are independent.  Each requestSubmit attempt
\* fetches the descriptor built in its own call and navigates with the method
\* and target resolved in its own call; and an attempt whose exchange is in
\* flight is changed by nothing but its own response or failure: a later
\* submission neither ends it nor changes its values.
C6_OverlappingIndependent ==
  [][/\ \A a \in 1..Len(attempts') :
          attempts'[a].kind = "requestSubmit" =>
            /\ attempts'[a].fetched # <<>> =>
                 attempts'[a].fetched = <<buildRequest(attempts'[a].trigger)>>
            /\ attempts'[a].navArgs # Null =>
                 attempts'[a].navArgs =
                   [method |-> buildRequest(attempts'[a].trigger).method,
                    target |-> TargetOf(attempts'[a].trigger)]
     /\ \A a \in Attempts :
          attempts[a].state = "sending" =>
            \/ attempts'[a] = attempts[a]
            \/ /\ attempts'[a].state \in {"navigated", "failed"}
               /\ attempts'[a].response # 0 \/ attempts'[a].rejected
               /\ attempts'[a].request = attempts[a].request
               /\ attempts'[a].fetched = attempts[a].fetched
               /\ attempts'[a].method = attempts[a].method
               /\ attempts'[a].target = attempts[a].target]_vars

\* Two requestSubmit calls with different descriptors and targets, the second
\* made while the first exchange was in flight; the second response has
\* arrived first
C6_Witness ==
  /\ Len(attempts) >= 2
  /\ attempts[1].kind = "requestSubmit"
  /\ attempts[2].kind = "requestSubmit"
  /\ attempts[1].state = "sending"
  /\ attempts[2].state = "navigated"
  /\ attempts[1].fetched # attempts[2].fetched
  /\ attempts[1].target # attempts[2].target

=============================================================================
